---- MODULE Spec2Model ----
(***************************************************************************)
(* A model of the schema and dispatch layer of the Ethereum ABI library:   *)
(*   src/src/params.rs  Param deserialization and the type-grammar parser  *)
(*   src/src/abi.rs     Abi, Function, selector dispatch, JSON entries     *)
(* Strings are sequences of one-character strings, bytes are 0..255.       *)
(* An optional value (Rust's Option) is a sequence of length 0 or 1.       *)
(***************************************************************************)
EXTENDS Integers, Sequences, FiniteSets, TLC

VARIABLES abi, keccak, call, result

vars == <<abi, keccak, call, result>>

(***************************************************************************)
(* Bounds of the model.                                                    *)
(***************************************************************************)
MaxComponents == 2
MaxSuffixes == 2
MaxFunctions == 2
MaxEvents == 2
MaxTopics == 2
MaxErrors == 1

None == <<>>
Some(x) == <<x>>
IsSome(o) == Len(o) = 1
Unwrap(o) == o[1]

SeqsUpTo(S, n) == UNION {[1..k -> S] : k \in 0..n}

RECURSIVE Flatten(_)
Flatten(ss) == IF ss = <<>> THEN <<>> ELSE Head(ss) \o Flatten(Tail(ss))

(***************************************************************************)
(* Outcomes of the public operations: a returned value, a returned error,  *)
(* or a panic.                                                             *)
(***************************************************************************)
Ok(v) == [kind |-> "ok", value |-> v]
Err(msg) == [kind |-> "err", msg |-> msg]
Panic(where) == [kind |-> "panic", at |-> where]

(***************************************************************************)
(* Type (crate::types::Type, as constructed by params.rs).                 *)
(***************************************************************************)
Uint(n) == [tag |-> "Uint", size |-> n]
TypeInt(n) == [tag |-> "Int", size |-> n]
Address == [tag |-> "Address"]
Bool == [tag |-> "Bool"]
String == [tag |-> "String"]
Bytes == [tag |-> "Bytes"]
FixedBytes(n) == [tag |-> "FixedBytes", size |-> n]
Array(ty) == [tag |-> "Array", elem |-> ty]
FixedArray(ty, n) == [tag |-> "FixedArray", elem |-> ty, size |-> n]
Tuple(tys) == [tag |-> "Tuple", fields |-> tys]

Param(name, ty, indexed) == [name |-> name, type_ |-> ty, indexed |-> indexed]

ParamEntry(name, ty, indexed, components) ==
    [name |-> name, type_ |-> ty, indexed |-> indexed, components |-> components]

(***************************************************************************)
(* nom results: Ok((rest, value)), Err(Error), or a panic that unwinds     *)
(* through every combinator.                                               *)
(***************************************************************************)
POk(rest, val) == [st |-> "ok", rest |-> rest, val |-> val]
PErr == [st |-> "err"]
PPanic == [st |-> "panic"]

Drop(s, n) == SubSeq(s, n + 1, Len(s))
StartsWith(s, t) == Len(s) >= Len(t) /\ SubSeq(s, 1, Len(t)) = t

\* nom::bytes::complete::tag
tag(t, input) == IF StartsWith(input, t) THEN POk(Drop(input, Len(t)), t) ELSE PErr

\* nom::character::complete::char
char(c, input) == tag(<<c>>, input)

DigitChars == {"0", "1", "2", "3", "4", "5", "6", "7", "8", "9"}

DigitValue ==
    ("0" :> 0) @@ ("1" :> 1) @@ ("2" :> 2) @@ ("3" :> 3) @@ ("4" :> 4) @@
    ("5" :> 5) @@ ("6" :> 6) @@ ("7" :> 7) @@ ("8" :> 8) @@ ("9" :> 9)

RECURSIVE DigitPrefixLen(_)
DigitPrefixLen(s) ==
    IF s # <<>> /\ Head(s) \in DigitChars THEN 1 + DigitPrefixLen(Tail(s)) ELSE 0

\* str::parse::<usize> on a string of decimal digits (leading zeros allowed);
\* the digit strings of the model stay far below usize::MAX.
RECURSIVE ParseUsize(_)
ParseUsize(ds) ==
    IF ds = <<>> THEN 0
    ELSE 10 * ParseUsize(SubSeq(ds, 1, Len(ds) - 1)) + DigitValue[ds[Len(ds)]]

parse_integer(input) ==
    LET n == DigitPrefixLen(input)
    IN  IF n = 0 THEN PErr ELSE POk(Drop(input, n), ParseUsize(SubSeq(input, 1, n)))

parse_sized(t, input) ==
    LET r == tag(t, input)
    IN  IF r.st # "ok" THEN r ELSE parse_integer(r.rest)

\* A size check without the upper limit of 256 bits.
check_int_size_unbounded(i) == i > 0 /\ i % 8 = 0

check_int_size(i) == i > 0 /\ i <= 256 /\ i % 8 = 0

check_fixed_bytes_size(i) == i > 0 /\ i <= 32

S_uint == <<"u", "i", "n", "t">>
S_int == <<"i", "n", "t">>
S_address == <<"a", "d", "d", "r", "e", "s", "s">>
S_bool == <<"b", "o", "o", "l">>
S_string == <<"s", "t", "r", "i", "n", "g">>
S_bytes == <<"b", "y", "t", "e", "s">>
S_tuple == <<"t", "u", "p", "l", "e">>

parse_uint(input) ==
    LET r == parse_sized(S_uint, input)
    IN  IF r.st = "ok" /\ check_int_size(r.val) THEN POk(r.rest, Uint(r.val)) ELSE PErr

parse_int(input) ==
    LET r == parse_sized(S_int, input)
    IN  IF r.st = "ok" /\ check_int_size(r.val) THEN POk(r.rest, TypeInt(r.val)) ELSE PErr

parse_address(input) ==
    LET r == tag(S_address, input)
    IN  IF r.st = "ok" THEN POk(r.rest, Address) ELSE PErr

parse_bool(input) ==
    LET r == tag(S_bool, input)
    IN  IF r.st = "ok" THEN POk(r.rest, Bool) ELSE PErr

parse_string(input) ==
    LET r == tag(S_string, input)
    IN  IF r.st = "ok" THEN POk(r.rest, String) ELSE PErr

parse_bytes(input) ==
    LET r == tag(S_bytes, input)
    IN  IF r.st # "ok" THEN PErr
        ELSE LET s == parse_integer(r.rest)
             IN  IF s.st = "ok" /\ check_fixed_bytes_size(s.val)
                 THEN POk(s.rest, FixedBytes(s.val))
                 ELSE POk(r.rest, Bytes)

\* delimited(char('['), opt(parse_integer), char(']')): the value is the
\* optional size.
parse_suffix(input) ==
    LET o == char("[", input)
    IN  IF o.st # "ok" THEN PErr
        ELSE LET n == parse_integer(o.rest)
                 i == IF n.st = "ok" THEN n.rest ELSE o.rest
                 size == IF n.st = "ok" THEN Some(n.val) ELSE None
                 c == char("]", i)
             IN  IF c.st # "ok" THEN PErr ELSE POk(c.rest, size)

\* many1(parse_suffix): at least one suffix, then as many as parse.
RECURSIVE many0_suffix(_)
many0_suffix(input) ==
    LET r == parse_suffix(input)
    IN  IF r.st # "ok" THEN POk(input, <<>>)
        ELSE LET m == many0_suffix(r.rest) IN POk(m.rest, <<r.val>> \o m.val)

many1_suffix(input) ==
    LET r == parse_suffix(input)
    IN  IF r.st # "ok" THEN PErr
        ELSE LET m == many0_suffix(r.rest) IN POk(m.rest, <<r.val>> \o m.val)

array_from_size(ty, size) ==
    IF size = None THEN Array(ty) ELSE FixedArray(ty, Unwrap(size))

\* sizes.into_iter().skip(1).fold(init_arr_ty, array_from_size)
RECURSIVE fold_sizes(_, _)
fold_sizes(acc, sizes) ==
    IF sizes = <<>> THEN acc
    ELSE fold_sizes(array_from_size(acc, Head(sizes)), Tail(sizes))

\* alt((a, b)): b is tried when a fails with an error; a panic unwinds.
alt(a, b) == IF a.st # "err" THEN a ELSE b

RECURSIVE parse_exact_type(_, _)
RECURSIVE parse_type(_, _)
RECURSIVE parse_simple_type(_, _)
RECURSIVE parse_array(_, _)
RECURSIVE parse_tuple(_, _)
RECURSIVE parse_components(_, _)
RECURSIVE parse_component(_, _, _, _)

\* A fold step that puts the component's field in front of the others.
parse_component_prepend(param, r, rest, acc) ==
    IF r.st # "ok" THEN PPanic
    ELSE parse_components(rest, <<<<param.name, r.val>>>> \o acc)

\* One step of cs.iter().try_fold(vec![], ...) in parse_tuple: r is the
\* component's parse_exact_type result, which is unwrapped.
parse_component(param, r, rest, acc) ==
    IF r.st # "ok" THEN PPanic
    ELSE parse_components(rest, Append(acc, <<param.name, r.val>>))

\* The fold over the components: each is parsed with its own components.
parse_components(cs, acc) ==
    IF cs = <<>> THEN POk(<<>>, acc)
    ELSE parse_component(Head(cs),
                         parse_exact_type(Head(cs).components, Head(cs).type_),
                         Tail(cs), acc)

\* The end of parse_tuple: tys is the outcome of the fold.
tuple_type(tys, rest) == IF tys.st # "ok" THEN tys ELSE POk(rest, Tuple(tys.val))

\* parse_tuple after tag("tuple"), whose result is r.
tuple_after_tag(components, r) ==
    IF r.st # "ok" THEN PErr
    ELSE IF components = None THEN PPanic
    ELSE tuple_type(parse_components(Unwrap(components), <<>>), r.rest)

parse_tuple(components, input) == tuple_after_tag(components, tag(S_tuple, input))

\* alt((parse_tuple, parse_uint, parse_int, parse_address, parse_bool,
\*      parse_string, parse_bytes)): the first parser that does not fail.
parse_simple_type(components, input) ==
    alt(parse_tuple(components, input),
    alt(parse_uint(input),
    alt(parse_int(input),
    alt(parse_address(input),
    alt(parse_bool(input),
    alt(parse_string(input),
        parse_bytes(input)))))))

\* The suffixes applied from the last to the first: the last one innermost.
array_type_last_innermost(ty, s) ==
    IF s.st # "ok" THEN PErr
    ELSE LET n == Len(s.val)
             rev == [i \in 1..n |-> s.val[n + 1 - i]]
         IN  POk(s.rest, fold_sizes(array_from_size(ty, rev[1]), Tail(rev)))

\* The end of parse_array: s is the result of many1 over the suffixes.
array_type(ty, s) ==
    IF s.st # "ok" THEN PErr
    ELSE POk(s.rest, fold_sizes(array_from_size(ty, s.val[1]), Tail(s.val)))

\* parse_array after parse_simple_type, whose result is r.
array_after_simple_type(r) ==
    IF r.st # "ok" THEN r ELSE array_type(r.val, many1_suffix(r.rest))

parse_array(components, input) ==
    array_after_simple_type(parse_simple_type(components, input))

parse_type(components, input) ==
    alt(parse_array(components, input), parse_simple_type(components, input))

\* A parser whose remaining input is not looked at.
exact_unchecked(r) == r

\* exact!: the parser must consume the whole input.
exact(r) ==
    IF r.st # "ok" THEN r
    ELSE IF r.rest # <<>> THEN PErr
    ELSE r

parse_exact_type(components, input) == exact(parse_type(components, input))

\* The end of Param::deserialize: r is the result of parse_exact_type.
param_of(entry, r) ==
    CASE r.st = "ok" -> Ok(Param(entry.name, r.val, entry.indexed))
      [] r.st = "err" -> Err("parse")
      [] OTHER -> Panic("parse_tuple")

\* <Param as Deserialize>::deserialize on a ParamEntry
ParamDeserialize(entry) ==
    param_of(entry, parse_exact_type(entry.components, entry.type_))

(***************************************************************************)
(* Canonical type strings (Type's Display, crate::types) and the function  *)
(* signature and selector.                                                 *)
(***************************************************************************)
DigitString == <<"0", "1", "2", "3", "4", "5", "6", "7", "8", "9">>

RECURSIVE DecString(_)
DecString(n) ==
    IF n < 10 THEN <<DigitString[n + 1]>>
    ELSE DecString(n \div 10) \o <<DigitString[(n % 10) + 1]>>

\* strs.join(sep)
RECURSIVE Join(_, _)
Join(strs, sep) ==
    IF strs = <<>> THEN <<>>
    ELSE IF Len(strs) = 1 THEN strs[1]
    ELSE strs[1] \o sep \o Join(Tail(strs), sep)

RECURSIVE to_string(_)
to_string(ty) ==
    CASE ty.tag = "Uint" -> S_uint \o DecString(ty.size)
      [] ty.tag = "Int" -> S_int \o DecString(ty.size)
      [] ty.tag = "Address" -> S_address
      [] ty.tag = "Bool" -> S_bool
      [] ty.tag = "String" -> S_string
      [] ty.tag = "Bytes" -> S_bytes
      [] ty.tag = "FixedBytes" -> S_bytes \o DecString(ty.size)
      [] ty.tag = "Array" -> to_string(ty.elem) \o <<"[", "]">>
      [] ty.tag = "FixedArray" ->
            to_string(ty.elem) \o <<"[">> \o DecString(ty.size) \o <<"]">>
      [] ty.tag = "Tuple" ->
            <<"(">>
            \o Join([i \in 1..Len(ty.fields) |-> to_string(ty.fields[i][2])], <<",">>)
            \o <<")">>

Function(name, inputs, outputs, state_mutability) ==
    [name |-> name, inputs |-> inputs, outputs |-> outputs,
     state_mutability |-> state_mutability]

StateMutability == {"pure", "view", "nonpayable", "payable"}

ParamTypes(params) == [i \in 1..Len(params) |-> params[i].type_]

\* Mutant of signature: the parameter names leak into the string.
signature_with_names(f) ==
    f.name
    \o <<"(">>
    \o Join([i \in 1..Len(f.inputs) |->
                to_string(f.inputs[i].type_) \o <<" ">> \o <<f.inputs[i].name>>], <<",">>)
    \o <<")">>

\* Mutant of signature: every type is followed by a comma, the last too.
signature_trailing_comma(f) ==
    f.name
    \o <<"(">>
    \o Flatten([i \in 1..Len(f.inputs) |-> to_string(f.inputs[i].type_) \o <<",">>])
    \o <<")">>

\* Function::signature
signature(f) ==
    f.name
    \o <<"(">>
    \o Join([i \in 1..Len(f.inputs) |-> to_string(f.inputs[i].type_)], <<",">>)
    \o <<")">>

DigestLen == 32
SelectorLen == 4

\* Function::method_id: the first 4 bytes of Keccak-256 of the signature.
method_id(f) == SubSeq(keccak[signature(f)], 1, SelectorLen)

(***************************************************************************)
(* Values and the head/tail codec (crate::values::Value::encode and        *)
(* Value::decode_from_slice), over 32-byte big-endian words.  A 256-bit    *)
(* integer is kept as its 32-byte big-endian word.                         *)
(***************************************************************************)
WordLen == 32
AddressLen == 20

Zeros(n) == [i \in 1..n |-> 0]

\* The word of a length, count or offset below 2^16.
Word(n) ==
    [i \in 1..WordLen |->
        IF i = WordLen THEN n % 256
        ELSE IF i = WordLen - 1 THEN (n \div 256) % 256
        ELSE 0]

\* The number in a word, or -1 when it is 2^16 or more (beyond any slice of
\* the model).
WordValue(w) ==
    IF \E i \in 1..(WordLen - 2) : w[i] # 0 THEN -1
    ELSE w[WordLen - 1] * 256 + w[WordLen]

PadLen(n) == (WordLen - (n % WordLen)) % WordLen

VUint(w, size) == [tag |-> "Uint", v |-> w, size |-> size]
VInt(w, size) == [tag |-> "Int", v |-> w, size |-> size]
VAddress(bytes) == [tag |-> "Address", bytes |-> bytes]
VBool(b) == [tag |-> "Bool", b |-> b]
VFixedBytes(bytes) == [tag |-> "FixedBytes", bytes |-> bytes]
VBytes(bytes) == [tag |-> "Bytes", bytes |-> bytes]
VString(bytes) == [tag |-> "String", bytes |-> bytes]
VArray(vals, ty) == [tag |-> "Array", vals |-> vals, ty |-> ty]
VFixedArray(vals, ty) == [tag |-> "FixedArray", vals |-> vals, ty |-> ty]
VTuple(fields) == [tag |-> "Tuple", fields |-> fields]

RECURSIVE type_of(_)
type_of(v) ==
    CASE v.tag = "Uint" -> Uint(v.size)
      [] v.tag = "Int" -> TypeInt(v.size)
      [] v.tag = "Address" -> Address
      [] v.tag = "Bool" -> Bool
      [] v.tag = "FixedBytes" -> FixedBytes(Len(v.bytes))
      [] v.tag = "Bytes" -> Bytes
      [] v.tag = "String" -> String
      [] v.tag = "Array" -> Array(v.ty)
      [] v.tag = "FixedArray" -> FixedArray(v.ty, Len(v.vals))
      [] v.tag = "Tuple" ->
            Tuple([i \in 1..Len(v.fields) |-> <<v.fields[i][1], type_of(v.fields[i][2])>>])

RECURSIVE is_dynamic(_)
is_dynamic(ty) ==
    CASE ty.tag \in {"Bytes", "String", "Array"} -> TRUE
      [] ty.tag = "FixedArray" -> is_dynamic(ty.elem)
      [] ty.tag = "Tuple" -> \E i \in 1..Len(ty.fields) : is_dynamic(ty.fields[i][2])
      [] OTHER -> FALSE

RECURSIVE SumSeq(_)
SumSeq(ns) == IF ns = <<>> THEN 0 ELSE Head(ns) + SumSeq(Tail(ns))

RECURSIVE static_size(_)
static_size(ty) ==
    CASE ty.tag = "FixedArray" -> ty.size * static_size(ty.elem)
      [] ty.tag = "Tuple" ->
            SumSeq([i \in 1..Len(ty.fields) |-> static_size(ty.fields[i][2])])
      [] OTHER -> WordLen

head_size(ty) == IF is_dynamic(ty) THEN WordLen ELSE static_size(ty)

RECURSIVE EncodeBlock(_)
RECURSIVE EncodeFrom(_, _, _, _)
RECURSIVE EncodeBody(_)

\* One value: in place for a static type, the body for a dynamic one.
EncodeBody(v) ==
    CASE v.tag \in {"Uint", "Int"} -> v.v
      [] v.tag = "Address" -> Zeros(WordLen - AddressLen) \o v.bytes
      [] v.tag = "Bool" -> Word(IF v.b THEN 1 ELSE 0)
      [] v.tag = "FixedBytes" -> v.bytes \o Zeros(WordLen - Len(v.bytes))
      [] v.tag \in {"Bytes", "String"} ->
            Word(Len(v.bytes)) \o v.bytes \o Zeros(PadLen(Len(v.bytes)))
      [] v.tag = "Array" -> Word(Len(v.vals)) \o EncodeBlock(v.vals)
      [] v.tag = "FixedArray" -> EncodeBlock(v.vals)
      [] v.tag = "Tuple" -> EncodeBlock([i \in 1..Len(v.fields) |-> v.fields[i][2]])

EncodeFrom(vals, h, head, tail) ==
    IF vals = <<>> THEN head \o tail
    ELSE IF is_dynamic(type_of(Head(vals)))
    THEN EncodeFrom(Tail(vals), h, head \o Word(h + Len(tail)),
                    tail \o EncodeBody(Head(vals)))
    ELSE EncodeFrom(Tail(vals), h, head \o EncodeBody(Head(vals)), tail)

\* A head/tail block: offsets are relative to the start of the block.
EncodeBlock(vals) ==
    EncodeFrom(vals, SumSeq([i \in 1..Len(vals) |-> head_size(type_of(vals[i]))]),
               <<>>, <<>>)

\* Value::encode
encode(values) == EncodeBlock(values)

DOk(v) == [ok |-> TRUE, val |-> v]
DErr == [ok |-> FALSE]

InSlice(data, at, n) == at >= 0 /\ n >= 0 /\ at + n <= Len(data)
Slice(data, at, n) == SubSeq(data, at + 1, at + n)

\* Sign extension of the low size/8 bytes of a word.
SignExtend(w, size) ==
    LET first == WordLen - (size \div 8) + 1
        fill == IF w[first] >= 128 THEN 255 ELSE 0
    IN  [i \in 1..WordLen |-> IF i >= first THEN w[i] ELSE fill]

RECURSIVE DecodeBlock(_, _, _, _, _)
RECURSIVE DecodeValue(_, _, _)

DecodeValue(ty, data, at) ==
    CASE ty.tag \in {"Uint", "Int", "Address", "Bool", "FixedBytes"} ->
            IF ~InSlice(data, at, WordLen) THEN DErr
            ELSE LET w == Slice(data, at, WordLen)
                 IN  (CASE ty.tag = "Uint" -> DOk(VUint(w, ty.size))
                        [] ty.tag = "Int" -> DOk(VInt(SignExtend(w, ty.size), ty.size))
                        [] ty.tag = "Address" ->
                              DOk(VAddress(Slice(w, WordLen - AddressLen, AddressLen)))
                        [] ty.tag = "Bool" -> DOk(VBool(w # Zeros(WordLen)))
                        [] ty.tag = "FixedBytes" -> DOk(VFixedBytes(Slice(w, 0, ty.size))))
      [] ty.tag \in {"Bytes", "String"} ->
            IF ~InSlice(data, at, WordLen) THEN DErr
            ELSE LET n == WordValue(Slice(data, at, WordLen))
                 IN  IF ~InSlice(data, at + WordLen, n) THEN DErr
                     ELSE IF ty.tag = "Bytes"
                     THEN DOk(VBytes(Slice(data, at + WordLen, n)))
                     ELSE DOk(VString(Slice(data, at + WordLen, n)))
      [] ty.tag = "Array" ->
            IF ~InSlice(data, at, WordLen) THEN DErr
            ELSE LET n == WordValue(Slice(data, at, WordLen))
                 IN  IF n < 0 \/ n > Len(data) THEN DErr
                     ELSE LET r == DecodeBlock([i \in 1..n |-> ty.elem], data,
                                               at + WordLen, at + WordLen, <<>>)
                          IN  IF r.ok THEN DOk(VArray(r.val, ty.elem)) ELSE DErr
      [] ty.tag = "FixedArray" ->
            LET r == DecodeBlock([i \in 1..ty.size |-> ty.elem], data, at, at, <<>>)
            IN  IF r.ok THEN DOk(VFixedArray(r.val, ty.elem)) ELSE DErr
      [] ty.tag = "Tuple" ->
            LET r == DecodeBlock([i \in 1..Len(ty.fields) |-> ty.fields[i][2]],
                                 data, at, at, <<>>)
            IN  IF r.ok
                THEN DOk(VTuple([i \in 1..Len(ty.fields) |->
                                    <<ty.fields[i][1], r.val[i]>>]))
                ELSE DErr

\* The values of `types` read from the block that starts at `base`, the head
\* cursor standing at `cursor`.
DecodeBlock(types, data, base, cursor, acc) ==
    IF types = <<>> THEN DOk(acc)
    ELSE LET ty == Head(types)
         IN  IF is_dynamic(ty)
             THEN IF ~InSlice(data, cursor, WordLen) THEN DErr
                  ELSE LET off == WordValue(Slice(data, cursor, WordLen))
                           r == DecodeValue(ty, data, base + off)
                       IN  IF off < 0 \/ ~r.ok THEN DErr
                           ELSE DecodeBlock(Tail(types), data, base,
                                            cursor + WordLen, Append(acc, r.val))
             ELSE LET r == DecodeValue(ty, data, cursor)
                  IN  IF ~r.ok THEN DErr
                      ELSE DecodeBlock(Tail(types), data, base,
                                       cursor + static_size(ty), Append(acc, r.val))

\* Value::decode_from_slice
decode_from_slice(data, types) == DecodeBlock(types, data, 0, 0, <<>>)

(***************************************************************************)
(* Selector dispatch (impl Abi, impl Function).                            *)
(***************************************************************************)
Min(a, b) == IF a <= b THEN a ELSE b

\* a.iter().cloned().zip(b).collect()
Zip(a, b) == [i \in 1..Min(Len(a), Len(b)) |-> <<a[i], b[i]>>]

\* Mutant of Function::decode_input_from_slice: the output types drive the
\* decoding.
Function_decode_input_by_outputs(f, input) ==
    LET r == decode_from_slice(input, ParamTypes(f.outputs))
    IN  IF ~r.ok THEN Err("decode") ELSE Ok(Zip(f.inputs, r.val))

\* Function::decode_input_from_slice
Function_decode_input_from_slice(f, input) ==
    LET r == decode_from_slice(input, ParamTypes(f.inputs))
    IN  IF ~r.ok THEN Err("decode") ELSE Ok(Zip(f.inputs, r.val))

\* Mutant of find_function: the last match instead of the first.
find_function_last(functions, selector) ==
    LET hits == {i \in 1..Len(functions) : method_id(functions[i]) = selector}
    IN  IF hits = {} THEN 0 ELSE CHOOSE i \in hits : \A j \in hits : i >= j

\* self.functions.iter().find(|f| f.method_id() == input[0..4]): the index of
\* the first match, 0 when there is none.
find_function(functions, selector) ==
    LET hits == {i \in 1..Len(functions) : method_id(functions[i]) = selector}
    IN  IF hits = {} THEN 0 ELSE CHOOSE i \in hits : \A j \in hits : i <= j

\* Abi::decode_input_from_slice.  The closure of find slices input[0..4] for
\* each function it visits: with a function to visit and fewer than 4 bytes
\* the slice expression panics.
Abi_decode_input_from_slice(self, input) ==
    IF self.functions # <<>> /\ Len(input) < SelectorLen
    THEN Panic("input[0..4]")
    ELSE LET i == IF self.functions = <<>> THEN 0
                  ELSE find_function(self.functions, SubSeq(input, 1, SelectorLen))
         IN  IF i = 0 THEN Err("ABI function not found")
             ELSE LET d == Function_decode_input_from_slice(
                               self.functions[i], Drop(input, SelectorLen))
                  IN  IF d.kind # "ok" THEN d
                      ELSE Ok([index |-> i, function |-> self.functions[i],
                               params |-> d.value])

(***************************************************************************)
(* Events (crate::event::Event): the topic id and the decoder of a log's   *)
(* topics and data.                                                        *)
(***************************************************************************)
Event(name, inputs, anonymous) ==
    [name |-> name, inputs |-> inputs, anonymous |-> anonymous]

IsIndexed(p) == p.indexed = Some(TRUE)
NotIndexed(p) == ~IsIndexed(p)

\* Event::signature: name(type,...) over the canonical type strings.
event_signature(e) ==
    e.name
    \o <<"(">>
    \o Join([i \in 1..Len(e.inputs) |-> to_string(e.inputs[i].type_)], <<",">>)
    \o <<")">>

\* Event::topic: the full Keccak-256 digest of the signature.
topic(e) == keccak[event_signature(e)]

\* An indexed parameter of such a type is stored as the hash of its value.
is_encoded_to_keccak(ty) ==
    \/ ty.tag \in {"Bytes", "String", "Array", "Tuple"}
    \/ ty.tag = "FixedArray" /\ is_dynamic(ty.elem)

\* The number of parameters among inputs[1..i] that are indexed (b = TRUE)
\* or not indexed (b = FALSE).
Rank(inputs, i, b) == Cardinality({k \in 1..i : IsIndexed(inputs[k]) = b})

\* Event::decode_data_from_slice
Event_decode_data_from_slice(e, topics, data) ==
    LET values == IF e.anonymous THEN topics ELSE Drop(topics, 1)
        indexed == SelectSeq(e.inputs, IsIndexed)
        d == decode_from_slice(data, ParamTypes(SelectSeq(e.inputs, NotIndexed)))
        t(k) == IF is_encoded_to_keccak(indexed[k].type_)
                THEN DOk(VFixedBytes(values[k]))
                ELSE DecodeValue(indexed[k].type_, values[k], 0)
    IN  IF ~e.anonymous /\ (topics = <<>> \/ topics[1] # topic(e))
        THEN Err("event topic mismatch")
        ELSE IF Len(values) # Len(indexed) THEN Err("indexed arity mismatch")
        ELSE IF ~d.ok \/ \E k \in 1..Len(indexed) : ~t(k).ok THEN Err("decode")
        ELSE Ok([i \in 1..Len(e.inputs) |->
                    IF IsIndexed(e.inputs[i])
                    THEN <<e.inputs[i], t(Rank(e.inputs, i, TRUE)).val>>
                    ELSE <<e.inputs[i], d.val[Rank(e.inputs, i, FALSE)]>>])

\* Mutant of find_event: the last match instead of the first.
find_event_last(events, topic0) ==
    LET hits == {i \in 1..Len(events) : topic(events[i]) = topic0}
    IN  IF hits = {} THEN 0 ELSE CHOOSE i \in hits : \A j \in hits : i >= j

\* self.events.iter().find(|e| e.topic() == topics[0]): the index of the
\* first match, 0 when there is none.
find_event(events, topic0) ==
    LET hits == {i \in 1..Len(events) : topic(events[i]) = topic0}
    IN  IF hits = {} THEN 0 ELSE CHOOSE i \in hits : \A j \in hits : i <= j

\* Abi::decode_log_from_slice
Abi_decode_log_from_slice(self, topics, data) ==
    IF topics = <<>> THEN Err("missing event topic id")
    ELSE LET i == find_event(self.events, topics[1])
         IN  IF i = 0 THEN Err("ABI event not found")
             ELSE LET d == Event_decode_data_from_slice(self.events[i], topics, data)
                  IN  IF d.kind # "ok" THEN d
                      ELSE Ok([index |-> i, event |-> self.events[i],
                               params |-> d.value])

HexChars ==
    {"0", "1", "2", "3", "4", "5", "6", "7", "8", "9",
     "a", "b", "c", "d", "e", "f", "A", "B", "C", "D", "E", "F"}

HexValue ==
    DigitValue @@
    ("a" :> 10) @@ ("b" :> 11) @@ ("c" :> 12) @@ ("d" :> 13) @@ ("e" :> 14) @@
    ("f" :> 15) @@ ("A" :> 10) @@ ("B" :> 11) @@ ("C" :> 12) @@ ("D" :> 13) @@
    ("E" :> 14) @@ ("F" :> 15)

\* hex::decode: an odd length or a character that is no hex digit is an error.
hex_decode(str) ==
    IF Len(str) % 2 # 0 THEN Err("odd length")
    ELSE IF \E i \in 1..Len(str) : str[i] \notin HexChars THEN Err("invalid character")
    ELSE Ok([i \in 1..(Len(str) \div 2) |->
                16 * HexValue[str[2 * i - 1]] + HexValue[str[2 * i]]])

\* Abi::decode_input_from_hex
Abi_decode_input_from_hex(self, input) ==
    LET slice == hex_decode(input)
    IN  IF slice.kind # "ok" THEN slice
        ELSE Abi_decode_input_from_slice(self, slice.value)

(***************************************************************************)
(* JSON (de)serialization of the schema.  A JSON entry is a record of the  *)
(* entry's `type` and its optional keys; its parameters are ParamEntry     *)
(* records.                                                                *)
(***************************************************************************)
AbiEntry(type_, name, inputs, outputs, state_mutability, anonymous) ==
    [type_ |-> type_, name |-> name, inputs |-> inputs, outputs |-> outputs,
     state_mutability |-> state_mutability, anonymous |-> anonymous]

Constructor(inputs, state_mutability) ==
    [inputs |-> inputs, state_mutability |-> state_mutability]

Error(name, inputs) == [name |-> name, inputs |-> inputs]

\* The JSON type string of a type: a tuple is written `tuple`, its fields
\* going to `components`.
RECURSIVE json_type_string(_)
json_type_string(ty) ==
    CASE ty.tag = "Tuple" -> S_tuple
      [] ty.tag = "Array" -> json_type_string(ty.elem) \o <<"[", "]">>
      [] ty.tag = "FixedArray" ->
            json_type_string(ty.elem) \o <<"[">> \o DecString(ty.size) \o <<"]">>
      [] OTHER -> to_string(ty)

RECURSIVE json_components(_)
json_components(ty) ==
    CASE ty.tag = "Tuple" ->
            Some([i \in 1..Len(ty.fields) |->
                    ParamEntry(ty.fields[i][1], json_type_string(ty.fields[i][2]),
                               None, json_components(ty.fields[i][2]))])
      [] ty.tag \in {"Array", "FixedArray"} -> json_components(ty.elem)
      [] OTHER -> None

\* <Param as Serialize>::serialize
ParamSerialize(p) ==
    ParamEntry(p.name, json_type_string(p.type_), p.indexed, json_components(p.type_))

\* The entry Abi::serialize pushes for the constructor.
ConstructorEntry(c) ==
    AbiEntry("constructor", None, Some(c.inputs), None, Some("nonpayable"), None)

\* <Abi as Serialize>::serialize: the entries, in the order pushed.
AbiEntries(self) ==
    (IF IsSome(self.constructor) THEN <<ConstructorEntry(Unwrap(self.constructor))>>
     ELSE <<>>)
    \o [i \in 1..Len(self.functions) |->
           LET f == self.functions[i]
           IN  AbiEntry("function", Some(f.name), Some(f.inputs), Some(f.outputs),
                        Some(f.state_mutability), None)]
    \o [i \in 1..Len(self.events) |->
           LET e == self.events[i]
           IN  AbiEntry("event", Some(e.name), Some(e.inputs), None, None,
                        Some(e.anonymous))]
    \o [i \in 1..Len(self.errors) |->
           LET e == self.errors[i]
           IN  AbiEntry("error", Some(e.name), Some(e.inputs), None, None, None)]
    \o (IF self.has_receive
        THEN <<AbiEntry("receive", None, None, None, Some("payable"), None)>>
        ELSE <<>>)
    \o (IF self.has_fallback
        THEN <<AbiEntry("fallback", None, None, None, Some("payable"), None)>>
        ELSE <<>>)

ParamsSerialize(o) ==
    IF o = None THEN None ELSE Some([i \in 1..Len(Unwrap(o)) |-> ParamSerialize(Unwrap(o)[i])])

\* entries.serialize(serializer): the derived Serialize of AbiEntry, keys
\* that are None skipped, each parameter written by Param's Serialize.
Abi_serialize(self) ==
    LET entries == AbiEntries(self)
    IN  [i \in 1..Len(entries) |->
            [entries[i] EXCEPT !.inputs = ParamsSerialize(@),
                               !.outputs = ParamsSerialize(@)]]

\* Vec<Param> deserialization: the first parameter that fails ends it.
RECURSIVE ParamsDeserialize(_, _)
RECURSIVE params_push(_, _, _)

\* r is the outcome of deserializing the parameter ahead of `rest`.
params_push(r, rest, acc) ==
    IF r.kind # "ok" THEN r ELSE ParamsDeserialize(rest, Append(acc, r.value))

ParamsDeserialize(entries, acc) ==
    IF entries = <<>> THEN Ok(acc)
    ELSE params_push(ParamDeserialize(Head(entries)), Tail(entries), acc)

option_of(r) == IF r.kind = "ok" THEN Ok(Some(r.value)) ELSE r

OptionParamsDeserialize(o) ==
    IF o = None THEN Ok(None) ELSE option_of(ParamsDeserialize(Unwrap(o), <<>>))

\* The fields of an AbiEntry put together: ins and outs are the outcomes of
\* deserializing `inputs` and `outputs`.
abi_entry_of(json, ins, outs) ==
    IF ins.kind # "ok" THEN ins
    ELSE IF outs.kind # "ok" THEN outs
    ELSE IF IsSome(json.state_mutability)
            /\ Unwrap(json.state_mutability) \notin StateMutability
    THEN Err("unknown variant")
    ELSE Ok([json EXCEPT !.inputs = ins.value, !.outputs = outs.value])

\* The derived Deserialize of AbiEntry (and of StateMutability).
AbiEntryDeserialize(json) ==
    abi_entry_of(json, OptionParamsDeserialize(json.inputs),
                 OptionParamsDeserialize(json.outputs))

unwrap_or_default(o) == IF o = None THEN <<>> ELSE Unwrap(o)

\* The body of the loop of AbiVisitor::visit_seq: the match on entry.type_.
\* Its outcome is the schema with the entry added, or the error returned.
visit_entry(acc, entry) ==
    CASE entry.type_ = "receive" -> Ok([acc EXCEPT !.has_receive = TRUE])
      [] entry.type_ = "fallback" -> Ok([acc EXCEPT !.has_fallback = TRUE])
      [] entry.type_ = "constructor" ->
            (IF entry.state_mutability = None
             THEN Err("missing constructor state mutability")
             ELSE Ok([acc EXCEPT !.constructor =
                        Some(Constructor(unwrap_or_default(entry.inputs),
                                         Unwrap(entry.state_mutability)))]))
      [] entry.type_ = "function" ->
            (IF entry.state_mutability = None
             THEN Err("missing function state mutability")
             ELSE IF entry.name = None THEN Err("missing function name")
             ELSE Ok([acc EXCEPT !.functions =
                        Append(@, Function(Unwrap(entry.name),
                                           unwrap_or_default(entry.inputs),
                                           unwrap_or_default(entry.outputs),
                                           Unwrap(entry.state_mutability)))]))
      [] entry.type_ = "event" ->
            (IF entry.name = None THEN Err("missing function name")
             ELSE IF entry.anonymous = None
             THEN Err("missing event anonymous field")
             ELSE Ok([acc EXCEPT !.events =
                        Append(@, Event(Unwrap(entry.name),
                                        unwrap_or_default(entry.inputs),
                                        Unwrap(entry.anonymous)))]))
      [] entry.type_ = "error" ->
            (IF entry.name = None THEN Err("missing error name")
             ELSE Ok([acc EXCEPT !.errors =
                        Append(@, Error(Unwrap(entry.name),
                                        unwrap_or_default(entry.inputs)))]))
      [] OTHER -> Err("invalid ABI entry type")

\* The loop of AbiVisitor::visit_seq over the entries left.
RECURSIVE visit_seq_loop(_, _)
RECURSIVE visit_seq_next(_, _)
RECURSIVE visit_seq_step(_, _, _)

\* r is the outcome of the loop's body; an error leaves the loop.
visit_seq_next(r, rest) ==
    IF r.kind # "ok" THEN r ELSE visit_seq_loop(r.value, rest)

\* A loop that leaves out the entries its body rejects.
visit_seq_step_skip_rejected(acc, next, rest) ==
    IF next.kind # "ok" THEN next
    ELSE IF visit_entry(acc, next.value).kind # "ok" THEN visit_seq_loop(acc, rest)
    ELSE visit_seq_loop(visit_entry(acc, next.value).value, rest)

\* next is the outcome of seq.next_element()?, an error of which is returned.
visit_seq_step(acc, next, rest) ==
    IF next.kind # "ok" THEN next
    ELSE visit_seq_next(visit_entry(acc, next.value), rest)

visit_seq_loop(acc, seq) ==
    IF seq = <<>> THEN Ok(acc)
    ELSE visit_seq_step(acc, AbiEntryDeserialize(Head(seq)), Tail(seq))

\* The entries visited from the last to the first.
visit_seq_reversed(seq) ==
    visit_seq_loop([constructor |-> None, functions |-> <<>>, events |-> <<>>,
                    errors |-> <<>>, has_receive |-> FALSE, has_fallback |-> FALSE],
                   [i \in 1..Len(seq) |-> seq[Len(seq) + 1 - i]])

\* AbiVisitor::visit_seq
visit_seq(seq) ==
    visit_seq_loop([constructor |-> None, functions |-> <<>>, events |-> <<>>,
                    errors |-> <<>>, has_receive |-> FALSE, has_fallback |-> FALSE],
                   seq)

\* <Abi as Deserialize>::deserialize
Abi_deserialize(json) == visit_seq(json)

(***************************************************************************)
(* Inputs of the parameter parser: type strings built from an atom, an     *)
(* optional size, array suffixes and optional trailing characters, and     *)
(* component descriptors nested two levels deep.                           *)
(***************************************************************************)
AtomStrings == {S_uint, S_int, S_bytes, S_address, S_bool, S_string, S_tuple}

SizeStrings ==
    {<<>>, <<"0">>, <<"7">>, <<"8">>, <<"0", "8">>, <<"3", "2">>, <<"3", "3">>,
     <<"2", "5", "6">>, <<"2", "5", "7">>, <<"2", "6", "4">>}

SuffixStrings == {<<"[", "]">>, <<"[", "2", "]">>, <<"[", "0", "]">>}

TrailingStrings == {<<>>, <<"x">>}

TypeStrings ==
    {a \o n \o Flatten(ss) \o t :
        a \in AtomStrings, n \in SizeStrings,
        ss \in SeqsUpTo(SuffixStrings, MaxSuffixes), t \in TrailingStrings}

S_uint8 == S_uint \o <<"8">>

TupleStrings == {S_tuple, S_tuple \o <<"[", "]">>, S_tuple \o <<"[", "2", "]">>}

\* Type strings no parser accepts (the examples of the specification).
BadTypeStrings == {S_uint \o <<"7">>, S_bytes \o <<"3", "3">>, S_bool \o <<"x">>}

LeafComponents ==
    {ParamEntry("a", S_uint8, None, None), ParamEntry("b", S_string, None, None)}
    \cup {ParamEntry("c", t, None, None) : t \in BadTypeStrings}

InnerTuples ==
    {ParamEntry("t", ts, None, Some(cs)) :
        ts \in TupleStrings, cs \in SeqsUpTo(LeafComponents, MaxComponents)}

ComponentLists ==
    SeqsUpTo(LeafComponents, MaxComponents)
    \cup {<<c>> : c \in InnerTuples}
    \cup {<<l, c>> : l \in LeafComponents, c \in InnerTuples}
    \cup {<<c, l>> : l \in LeafComponents, c \in InnerTuples}

ParamEntries ==
    {ParamEntry("p", ts, None, None) : ts \in TypeStrings}
    \cup {ParamEntry("p", ts, None, Some(cs)) : ts \in TupleStrings, cs \in ComponentLists}
    \cup {ParamEntry("p", S_uint8, Some(TRUE), Some(cs)) :
            cs \in SeqsUpTo(LeafComponents, 1)}

(***************************************************************************)
(* The schema (struct Abi) and the state of the model: the schema in use,  *)
(* the hash function, the last call and its outcome.                       *)
(***************************************************************************)
EmptyAbi ==
    [constructor |-> None, functions |-> <<>>, events |-> <<>>, errors |-> <<>>,
     has_receive |-> FALSE, has_fallback |-> FALSE]

NoCall == [op |-> "none"]
NoResult == [kind |-> "none"]

\* The caller takes the outcome of the last call; the next call starts from
\* there.
Return ==
    /\ call # NoCall
    /\ call' = NoCall
    /\ result' = NoResult
    /\ UNCHANGED <<abi, keccak>>

\* serde_json::from_value::<Param>(entry)
DeserializeParam(entry) ==
    /\ call = NoCall
    /\ call' = [op |-> "param_deserialize", entry |-> entry]
    /\ result' = ParamDeserialize(entry)
    /\ UNCHANGED <<abi, keccak>>

InitParam ==
    /\ abi = EmptyAbi
    /\ keccak = <<>>
    /\ call = NoCall
    /\ result = NoResult

NextParam ==
    \/ \E entry \in ParamEntries : DeserializeParam(entry)
    \/ Return

SpecParam == InitParam /\ [][NextParam]_vars

(***************************************************************************)
(* Calldata dispatch (SpecInput): a schema of up to MaxFunctions functions *)
(* built programmatically, any assignment of digests to their signatures   *)
(* (two signatures may collide), and calldata made of a selector and a     *)
(* payload, whole or cut short.                                            *)
(***************************************************************************)
\* test_function() of the tests of abi.rs
test_function ==
    Function(<<"f", "u", "n", "n", "a", "m", "e">>,
             <<Param("", Address, None), Param("x", FixedArray(Uint(56), 2), None)>>,
             <<>>, "pure")

FunctionUniverse ==
    {test_function,
     Function(<<"f">>, <<Param("x", Uint(8), None)>>, <<>>, "pure"),
     Function(<<"f">>, <<Param("y", Uint(8), None)>>, <<Param("", Bool, None)>>, "view"),
     Function(<<"g">>, <<Param("a", Bool, None), Param("b", Bytes, None)>>,
              <<Param("r", Uint(8), None)>>, "payable"),
     Function(<<"g">>, <<>>, <<Param("", Uint(8), None)>>, "nonpayable")}

DigestA == [i \in 1..DigestLen |-> (7 * i) % 256]
DigestB == [i \in 1..DigestLen |-> 255 - i]
Digests == {DigestA, DigestB}

UnknownSelector == Zeros(SelectorLen)

\* Values conforming to a type.
RECURSIVE Samples(_)
RECURSIVE ValueLists(_)
Samples(ty) ==
    CASE ty.tag = "Uint" -> {VUint(Word(5), ty.size), VUint(Word(255), ty.size)}
      [] ty.tag = "Int" -> {VInt(Word(5), ty.size), VInt([i \in 1..WordLen |-> 255], ty.size)}
      [] ty.tag = "Address" -> {VAddress([i \in 1..AddressLen |-> i])}
      [] ty.tag = "Bool" -> {VBool(TRUE), VBool(FALSE)}
      [] ty.tag = "FixedBytes" -> {VFixedBytes([i \in 1..ty.size |-> i])}
      [] ty.tag = "Bytes" -> {VBytes(<<>>), VBytes(<<1, 2, 3>>)}
      [] ty.tag = "String" -> {VString(<<>>), VString(<<104, 105>>)}
      [] ty.tag = "Array" ->
            {VArray(vs, ty.elem) : vs \in SeqsUpTo(Samples(ty.elem), 1)}
      [] ty.tag = "FixedArray" ->
            {VFixedArray(vs, ty.elem) : vs \in [1..ty.size -> Samples(ty.elem)]}
      [] ty.tag = "Tuple" ->
            {VTuple([i \in 1..Len(ty.fields) |-> <<ty.fields[i][1], vs[i]>>]) :
                vs \in ValueLists([i \in 1..Len(ty.fields) |-> ty.fields[i][2]])}

ValueLists(types) ==
    IF types = <<>> THEN {<<>>}
    ELSE {<<v>> \o vs : v \in Samples(Head(types)), vs \in ValueLists(Tail(types))}

Payloads ==
    {encode(vs) : vs \in UNION {ValueLists(ParamTypes(f.inputs)) : f \in FunctionUniverse}}

TruncatedPayloads == {SubSeq(p, 1, Len(p) - 1) : p \in Payloads \ {<<>>}}

Selectors == {SubSeq(d, 1, SelectorLen) : d \in Digests} \cup {UnknownSelector}

ShortInputs == {SubSeq(d, 1, k) : d \in Digests, k \in 0..(SelectorLen - 1)}

SliceInputs ==
    ShortInputs \cup {sel \o p : sel \in Selectors, p \in Payloads \cup TruncatedPayloads}

HexDigits ==
    <<"0", "1", "2", "3", "4", "5", "6", "7", "8", "9", "a", "b", "c", "d", "e", "f">>

\* hex::encode
RECURSIVE hex_encode(_)
hex_encode(bytes) ==
    IF bytes = <<>> THEN <<>>
    ELSE <<HexDigits[(Head(bytes) \div 16) + 1], HexDigits[(Head(bytes) % 16) + 1]>>
         \o hex_encode(Tail(bytes))

HexInputs ==
    {hex_encode(b) : b \in ShortInputs \cup {sel \o Word(5) : sel \in Selectors}}
    \cup {<<"a">>, <<"0", "x", "0", "7">>, <<"0", "7", "0", "E", "1", "5", "1", "C">>}

SigsOf(functions) == {signature(functions[i]) : i \in 1..Len(functions)}

\* abi.decode_input_from_slice(&input)
DecodeInputFromSlice(input) ==
    /\ call = NoCall
    /\ call' = [op |-> "decode_input_from_slice", input |-> input]
    /\ result' = Abi_decode_input_from_slice(abi, input)
    /\ UNCHANGED <<abi, keccak>>

\* abi.decode_input_from_hex(input)
DecodeInputFromHex(input) ==
    /\ call = NoCall
    /\ call' = [op |-> "decode_input_from_hex", input |-> input]
    /\ result' = Abi_decode_input_from_hex(abi, input)
    /\ UNCHANGED <<abi, keccak>>

\* abi.functions[i].signature()
Signature(i) ==
    /\ call = NoCall
    /\ call' = [op |-> "signature", index |-> i]
    /\ result' = Ok(signature(abi.functions[i]))
    /\ UNCHANGED <<abi, keccak>>

\* abi.functions[i].method_id()
MethodId(i) ==
    /\ call = NoCall
    /\ call' = [op |-> "method_id", index |-> i]
    /\ result' = Ok(method_id(abi.functions[i]))
    /\ UNCHANGED <<abi, keccak>>

InitInput ==
    /\ abi \in {[EmptyAbi EXCEPT !.functions = fs] :
                   fs \in SeqsUpTo(FunctionUniverse, MaxFunctions)}
    /\ keccak \in [SigsOf(abi.functions) -> Digests]
    /\ call = NoCall
    /\ result = NoResult

NextInput ==
    \/ \E input \in SliceInputs : DecodeInputFromSlice(input)
    \/ \E input \in HexInputs : DecodeInputFromHex(input)
    \/ \E i \in 1..Len(abi.functions) : Signature(i)
    \/ \E i \in 1..Len(abi.functions) : MethodId(i)
    \/ Return

SpecInput == InitInput /\ [][NextInput]_vars

(***************************************************************************)
(* Log dispatch (SpecLog): a schema of up to MaxEvents events, any         *)
(* assignment of digests to their signatures, logs of up to MaxTopics      *)
(* topics.                                                                 *)
(***************************************************************************)
EventUniverse ==
    {Event(<<"E">>, <<Param("a", Uint(8), Some(TRUE)), Param("b", Bool, Some(FALSE))>>, FALSE),
     Event(<<"E">>, <<Param("a", Uint(8), Some(FALSE)), Param("b", Bool, Some(TRUE))>>, FALSE),
     Event(<<"A">>, <<>>, TRUE),
     Event(<<"A">>, <<Param("s", String, Some(TRUE))>>, TRUE)}

TopicValues == Digests \cup {Word(5)}

TopicLists == SeqsUpTo(TopicValues, MaxTopics)

LogData == {<<>>, Word(1), SubSeq(Word(1), 1, WordLen - 1)}

\* abi.decode_log_from_slice(&topics, &data)
DecodeLogFromSlice(topics, data) ==
    /\ call = NoCall
    /\ call' = [op |-> "decode_log_from_slice", topics |-> topics, data |-> data]
    /\ result' = Abi_decode_log_from_slice(abi, topics, data)
    /\ UNCHANGED <<abi, keccak>>

InitLog ==
    /\ abi \in {[EmptyAbi EXCEPT !.events = es] : es \in SeqsUpTo(EventUniverse, MaxEvents)}
    /\ keccak \in [{event_signature(abi.events[i]) : i \in 1..Len(abi.events)} -> Digests]
    /\ call = NoCall
    /\ result = NoResult

NextLog ==
    \/ \E topics \in TopicLists, data \in LogData : DecodeLogFromSlice(topics, data)
    \/ Return

SpecLog == InitLog /\ [][NextLog]_vars

(***************************************************************************)
(* Schema serialization (SpecSerde): schemas built programmatically from   *)
(* an optional constructor of any mutability, functions, events, errors    *)
(* and the two flags.                                                      *)
(***************************************************************************)

\* The function of works_v2 (tests of abi.rs): a tuple among its inputs.
works_v2_function ==
    Function(<<"f">>,
             <<Param("n", Uint(256), None),
               Param("x", Tuple(<<<<"a", Uint(256)>>, <<"b", String>>>>), None)>>,
             <<>>, "nonpayable")

SerdeFunctions ==
    {works_v2_function,
     Function(<<"g">>, <<Param("y", Array(FixedBytes(4)), None)>>,
              <<Param("", Bool, None)>>, "view")}

SerdeEvents ==
    {Event(<<"E">>, <<Param("x", Address, Some(FALSE)), Param("y", Uint(256), Some(TRUE))>>,
           FALSE),
     Event(<<"A">>, <<>>, TRUE)}

SerdeErrors ==
    {Error(<<"E", "r", "r">>, <<Param("x", Uint(256), None), Param("y", Uint(256), None)>>)}

SerdeConstructors ==
    {None} \cup {Some(Constructor(<<Param("a", Address, None)>>, sm)) : sm \in StateMutability}

SerdeSchemas ==
    [constructor : SerdeConstructors,
     functions : SeqsUpTo(SerdeFunctions, MaxFunctions),
     events : SeqsUpTo(SerdeEvents, MaxEvents),
     errors : SeqsUpTo(SerdeErrors, MaxErrors),
     has_receive : BOOLEAN,
     has_fallback : BOOLEAN]

\* serde_json::to_string(&abi)
Serialize ==
    /\ call = NoCall
    /\ call' = [op |-> "serialize"]
    /\ result' = Ok(Abi_serialize(abi))
    /\ UNCHANGED <<abi, keccak>>

\* test_serde: the schema is serialized and the output deserialized.
TestSerde ==
    /\ call = NoCall
    /\ call' = [op |-> "test_serde"]
    /\ result' = Abi_deserialize(Abi_serialize(abi))
    /\ UNCHANGED <<abi, keccak>>

InitSerde ==
    /\ abi \in SerdeSchemas
    /\ keccak = <<>>
    /\ call = NoCall
    /\ result = NoResult

NextSerde ==
    \/ Serialize
    \/ TestSerde
    \/ Return

SpecSerde == InitSerde /\ [][NextSerde]_vars

(***************************************************************************)
(* Schema documents (SpecJson): sequences of up to MaxEntries JSON entries *)
(* of every kind, whole or lacking one of their keys, in any order, given  *)
(* to the deserializer of Abi.                                             *)
(***************************************************************************)
MaxEntries == 3

JsonInputs ==
    Some(<<ParamEntry("a", S_uint8, None, None), ParamEntry("b", S_string, None, None)>>)

JsonIndexedInputs == Some(<<ParamEntry("a", S_uint8, Some(TRUE), None)>>)

JsonOutputs == Some(<<ParamEntry("", S_bool, None, None)>>)

FunctionEntries ==
    {AbiEntry("function", Some(<<"f">>), JsonInputs, JsonOutputs, Some("view"), None),
     AbiEntry("function", Some(<<"g">>), None, None, Some("payable"), None),
     AbiEntry("function", None, JsonInputs, JsonOutputs, Some("view"), None),
     AbiEntry("function", Some(<<"f">>), JsonInputs, JsonOutputs, None, None)}

EventEntries ==
    {AbiEntry("event", Some(<<"E">>), JsonIndexedInputs, None, None, Some(FALSE)),
     AbiEntry("event", Some(<<"A">>), None, None, None, Some(TRUE)),
     AbiEntry("event", None, JsonIndexedInputs, None, None, Some(FALSE)),
     AbiEntry("event", Some(<<"E">>), JsonIndexedInputs, None, None, None)}

ConstructorEntries ==
    {AbiEntry("constructor", None, JsonInputs, None, Some("nonpayable"), None),
     AbiEntry("constructor", None, None, None, Some("payable"), None),
     AbiEntry("constructor", None, JsonInputs, None, None, None)}

ErrorEntries ==
    {AbiEntry("error", Some(<<"X">>), JsonInputs, None, None, None),
     AbiEntry("error", Some(<<"Y">>), None, None, None, None),
     AbiEntry("error", None, JsonInputs, None, None, None)}

ReceiveFallbackEntries ==
    {AbiEntry(t, None, None, None, sm, None) :
        t \in {"receive", "fallback"}, sm \in {None, Some("payable")}}

UnknownEntries == {AbiEntry("library", Some(<<"L">>), None, None, None, None)}

JsonEntries ==
    FunctionEntries \cup EventEntries \cup ConstructorEntries \cup ErrorEntries
    \cup ReceiveFallbackEntries \cup UnknownEntries

JsonDocuments == SeqsUpTo(JsonEntries, MaxEntries)

\* serde_json::from_str::<Abi>(json)
Deserialize(json) ==
    /\ call = NoCall
    /\ call' = [op |-> "deserialize", json |-> json]
    /\ result' = Abi_deserialize(json)
    /\ UNCHANGED <<abi, keccak>>

InitJson ==
    /\ abi = EmptyAbi
    /\ keccak = <<>>
    /\ call = NoCall
    /\ result = NoResult

NextJson ==
    \/ call = NoCall /\ \E json \in JsonDocuments : Deserialize(json)
    \/ Return

SpecJson == InitJson /\ [][NextJson]_vars

(***************************************************************************)
(* Claims about Param deserialization (SpecParam).                         *)
(***************************************************************************)
IsTupleString(ts) == StartsWith(ts, S_tuple)

RECURSIVE HasBadComponent(_)
HasBadComponent(entry) ==
    /\ IsTupleString(entry.type_)
    /\ IsSome(entry.components)
    /\ \E i \in 1..Len(Unwrap(entry.components)) :
          LET c == Unwrap(entry.components)[i]
          IN  c.type_ \in BadTypeStrings \/ HasBadComponent(c)

\* C2: deserializing a parameter of type `tuple` (with or without array
\* suffixes) that carries no components returns a deserialization error:
\* it neither panics nor yields a Param.
C2_TupleWithoutComponentsIsError ==
    (/\ call.op = "param_deserialize"
     /\ call.entry.type_ \in TupleStrings
     /\ call.entry.components = None)
    => result.kind = "err"

\* C3: a tuple parameter whose components contain, at any depth, an
\* unparseable type string deserializes to a returned error, not a panic.
C3_BadComponentIsError ==
    (call.op = "param_deserialize" /\ HasBadComponent(call.entry))
    => result.kind = "err"

(***************************************************************************)
(* Claims about calldata dispatch, signatures and selectors (SpecInput).   *)
(***************************************************************************)
IsDecodeInput == call.op \in {"decode_input_from_slice", "decode_input_from_hex"}

\* The bytes a decode_input call passes, when the call has any.
CallBytes ==
    IF call.op = "decode_input_from_slice" THEN Ok(call.input) ELSE hex_decode(call.input)

\* C1: for every schema, an input of fewer than 4 bytes (the empty input
\* included), given as a slice or as hex, yields a returned error (the
\* "input too short" error): no panic, no function.
C1_ShortInputIsTooShortError ==
    (IsDecodeInput /\ CallBytes.kind = "ok" /\ Len(CallBytes.value) < SelectorLen)
    => result.kind = "err"

\* The functions of the schema whose selector is `sel`.
Hits(sel) == {i \in 1..Len(abi.functions) : method_id(abi.functions[i]) = sel}

IsFirstHit(i, sel) == i \in Hits(sel) /\ \A j \in Hits(sel) : i <= j

\* C6: for an input of at least 4 bytes the function decoded with is the
\* first in schema order whose method_id equals input[0..4], also when
\* several share it; with no such function the outcome is the error
\* "ABI function not found" and no function.
C6_FirstMatchingSelectorWins ==
    (call.op = "decode_input_from_slice" /\ Len(call.input) >= SelectorLen)
    => LET sel == SubSeq(call.input, 1, SelectorLen)
       IN  IF Hits(sel) = {} THEN result = Err("ABI function not found")
           ELSE \E i \in Hits(sel) :
                  /\ IsFirstHit(i, sel)
                  /\ LET d == Function_decode_input_from_slice(
                                  abi.functions[i], Drop(call.input, SelectorLen))
                     IN  IF d.kind = "ok"
                         THEN /\ result.kind = "ok"
                              /\ result.value.index = i
                              /\ result.value.function = abi.functions[i]
                         ELSE result = d

\* C6 witness: two different functions share the selector and the first is
\* returned.
C6_Witness ==
    /\ call.op = "decode_input_from_slice"
    /\ Len(call.input) >= SelectorLen
    /\ Len(abi.functions) = 2
    /\ abi.functions[1] # abi.functions[2]
    /\ Hits(SubSeq(call.input, 1, SelectorLen)) = {1, 2}
    /\ result.kind = "ok"
    /\ result.value.index = 1

\* C7: for f the first function with its selector and values vs conforming
\* to f's input types, decoding method_id(f) ++ encode(vs) returns f with
\* exactly len(f.inputs) pairs, the i-th being (f.inputs[i], vs[i]).
C7_DecodeInputRoundTrip ==
    call.op = "decode_input_from_slice"
    => \A i \in 1..Len(abi.functions) :
          LET f == abi.functions[i]
          IN  IsFirstHit(i, method_id(f))
              => \A vs \in ValueLists(ParamTypes(f.inputs)) :
                    call.input = method_id(f) \o encode(vs)
                    => /\ result.kind = "ok"
                       /\ result.value.function = f
                       /\ result.value.index = i
                       /\ Len(result.value.params) = Len(f.inputs)
                       /\ \A k \in 1..Len(f.inputs) :
                             result.value.params[k] = <<f.inputs[k], vs[k]>>

\* C7 witness: a function with two inputs (one dynamic) and outputs of other
\* types is decoded from its selector and the encoding of two values.
C7_Witness ==
    /\ call.op = "decode_input_from_slice"
    /\ result.kind = "ok"
    /\ Len(result.value.function.inputs) = 2
    /\ ParamTypes(result.value.function.outputs) # ParamTypes(result.value.function.inputs)
    /\ \E vs \in ValueLists(ParamTypes(result.value.function.inputs)) :
          /\ call.input = method_id(result.value.function) \o encode(vs)
          /\ vs[2] = VBytes(<<1, 2, 3>>)

SameNameAndInputTypes(f, g) ==
    f.name = g.name /\ ParamTypes(f.inputs) = ParamTypes(g.inputs)

\* The name and the list of canonical type strings, kept apart.
NameAndTypeList(f) ==
    <<f.name, [i \in 1..Len(f.inputs) |-> to_string(f.inputs[i].type_)]>>

\* C9: two functions with the same name and the same input types have the
\* same signature and method id, whatever their parameter names, outputs
\* and mutability; functions that differ in name or type list have
\* different signatures.
C9_SelectorStability ==
    call.op = "signature"
    => \A j \in 1..Len(abi.functions) :
          LET f == abi.functions[call.index]
              g == abi.functions[j]
          IN  /\ SameNameAndInputTypes(f, g)
                 => (signature(g) = result.value /\ method_id(g) = method_id(f))
              /\ NameAndTypeList(f) # NameAndTypeList(g) => signature(g) # result.value

\* C9 witness: the signature of a function was taken while the schema holds
\* another function of the same name and input types but other parameter
\* names, outputs and mutability, and one with another type list.
C9_Witness ==
    /\ call.op = "signature"
    /\ Len(abi.functions) = 2
    /\ LET f == abi.functions[1]
           g == abi.functions[2]
       IN  /\ call.index = 1
           /\ SameNameAndInputTypes(f, g)
           /\ f.inputs # g.inputs
           /\ f.outputs # g.outputs
           /\ f.state_mutability # g.state_mutability

\* Offset of the i-th canonical type string inside the signature.
TypeOffset(f, i) ==
    Len(f.name) + 1
    + SumSeq([k \in 1..(i - 1) |-> Len(to_string(f.inputs[k].type_)) + 1])

\* C10: signature() is the name, "(", the canonical input type strings in
\* order separated by single commas (none leading or trailing, no spaces),
\* and ")"; method_id() is the first 4 bytes of Keccak-256 of that string.
C10_SignatureAndMethodId ==
    /\ call.op = "signature"
       => LET f == abi.functions[call.index]
              sig == result.value
              n == Len(f.inputs)
              str(i) == to_string(f.inputs[i].type_)
          IN  /\ Len(sig) = Len(f.name) + 2 + SumSeq([i \in 1..n |-> Len(str(i))])
                            + (IF n = 0 THEN 0 ELSE n - 1)
              /\ SubSeq(sig, 1, Len(f.name)) = f.name
              /\ sig[Len(f.name) + 1] = "("
              /\ sig[Len(sig)] = ")"
              /\ \A i \in 1..n :
                    SubSeq(sig, TypeOffset(f, i) + 1, TypeOffset(f, i) + Len(str(i))) = str(i)
              /\ \A i \in 1..(n - 1) : sig[TypeOffset(f, i) + Len(str(i)) + 1] = ","
              /\ \A k \in 1..Len(sig) : sig[k] # " "
              /\ f = test_function
                 => sig = <<"f", "u", "n", "n", "a", "m", "e", "(",
                            "a", "d", "d", "r", "e", "s", "s", ",",
                            "u", "i", "n", "t", "5", "6", "[", "2", "]", ")">>
    /\ call.op = "method_id"
       => LET f == abi.functions[call.index]
          IN  /\ Len(result.value) = SelectorLen
              /\ \A k \in 1..SelectorLen : result.value[k] = keccak[signature(f)][k]

\* C10 witness: the signature of a function with two inputs, and the method
\* id of a function without inputs, have been computed.
C10_Witness ==
    \/ /\ call.op = "signature"
       /\ abi.functions[call.index] = test_function
       /\ result.kind = "ok"
    \/ /\ call.op = "method_id"
       /\ abi.functions[call.index].inputs = <<>>
       /\ result.kind = "ok"

(***************************************************************************)
(* Claims about log dispatch (SpecLog).                                    *)
(***************************************************************************)
IndexedCount(e) == Len(SelectSeq(e.inputs, IsIndexed))

DataDecodes(e, data) ==
    decode_from_slice(data, ParamTypes(SelectSeq(e.inputs, NotIndexed))).ok

\* C5: a log of an anonymous event of the schema needs no selector topic:
\* decode_log_from_slice succeeds whenever the number of topics equals the
\* event's number of indexed inputs (and the data decodes), and fails when
\* the schema holds only anonymous events and no count fits.
C5_AnonymousEventNeedsNoTopicId ==
    call.op = "decode_log_from_slice"
    => /\ (\E i \in 1..Len(abi.events) :
              /\ abi.events[i].anonymous
              /\ Len(call.topics) = IndexedCount(abi.events[i])
              /\ DataDecodes(abi.events[i], call.data))
          => result.kind = "ok"
       /\ (\A i \in 1..Len(abi.events) :
              /\ abi.events[i].anonymous
              /\ Len(call.topics) # IndexedCount(abi.events[i]))
          => result.kind = "err"

EventHits(topic0) == {i \in 1..Len(abi.events) : topic(abi.events[i]) = topic0}

\* C8: decode_log_from_slice returns an error and no event when the topic
\* list is empty or the first topic is the topic of no event of the
\* schema; otherwise it decodes with the first event in schema order whose
\* topic equals topics[0], handing it the whole topic list and the data.
C8_LogDispatchByFirstTopic ==
    call.op = "decode_log_from_slice"
    => IF call.topics = <<>> THEN result = Err("missing event topic id")
       ELSE IF EventHits(call.topics[1]) = {} THEN result = Err("ABI event not found")
       ELSE \E i \in EventHits(call.topics[1]) :
              /\ \A j \in EventHits(call.topics[1]) : i <= j
              /\ LET d == Event_decode_data_from_slice(abi.events[i], call.topics, call.data)
                 IN  IF d.kind = "ok"
                     THEN result = Ok([index |-> i, event |-> abi.events[i],
                                       params |-> d.value])
                     ELSE result = d

\* C8 witness: two different events have the topic topics[0]; the first one
\* decoded the log, its indexed value taken from the second topic.
C8_Witness ==
    /\ call.op = "decode_log_from_slice"
    /\ Len(call.topics) = 2
    /\ Len(abi.events) = 2
    /\ abi.events[1] # abi.events[2]
    /\ EventHits(call.topics[1]) = {1, 2}
    /\ result.kind = "ok"
    /\ result.value.index = 1
    /\ result.value.params[1] = <<abi.events[1].inputs[1], VUint(Word(5), 8)>>

(***************************************************************************)
(* Claims about schema serialization (SpecSerde).                          *)
(***************************************************************************)
\* C4: serialization round-trips: deserializing the entries produced by
\* serializing a schema yields a schema equal to it in every field,
\* whatever the constructor's state mutability.
C4_SerdeRoundTrip == call.op = "test_serde" => result = Ok(abi)

\* The round trip but for the constructor's mutability, which comes back
\* as nonpayable.
SerdeRoundTripButConstructorMutability ==
    call.op = "test_serde"
    => result = Ok([abi EXCEPT !.constructor =
                       IF @ = None THEN None
                       ELSE Some(Constructor(Unwrap(@).inputs, "nonpayable"))])

(***************************************************************************)
(* Claims about the type strings of parameters (SpecParam).                *)
(***************************************************************************)
IsDigits(s) == \A i \in 1..Len(s) : s[i] \in DigitChars

\* The type string is `prefix` followed by decimal digits only (or nothing).
IsSizedString(ts, prefix) ==
    StartsWith(ts, prefix) /\ IsDigits(Drop(ts, Len(prefix)))

\* The sizes of uintN / intN: 8, 16, ..., 256.
ValidIntSizes == {8 * k : k \in 1..32}

\* The outcome the specification gives to `uintN` / `intN`: the type made
\* by `make` when N is a valid size, a returned error otherwise.
IntSizeOutcome(entry, prefix, make(_)) ==
    LET ds == Drop(entry.type_, Len(prefix))
    IN  IF ds # <<>> /\ ParseUsize(ds) \in ValidIntSizes
        THEN result = Ok(Param(entry.name, make(ParseUsize(ds)), entry.indexed))
        ELSE result.kind = "err"

\* C11: `uintN` (resp. `intN`) parses to Uint(N) (resp. Int(N)) exactly
\* when N is a multiple of 8 with 8 <= N <= 256; for every other N, and for
\* `uint` / `int` without a size, deserialization fails with an error.
C11_IntSizes ==
    call.op = "param_deserialize"
    => /\ IsSizedString(call.entry.type_, S_uint)
          => IntSizeOutcome(call.entry, S_uint, Uint)
       /\ IsSizedString(call.entry.type_, S_int)
          => IntSizeOutcome(call.entry, S_int, TypeInt)

\* C11 witness: `int256` was deserialized to Int(256).
C11_Witness ==
    /\ call.op = "param_deserialize"
    /\ call.entry.type_ = S_int \o <<"2", "5", "6">>
    /\ result = Ok(Param(call.entry.name, TypeInt(256), call.entry.indexed))

\* The element type under every Array / FixedArray of a type.
RECURSIVE ElementCore(_)
ElementCore(ty) ==
    IF ty.tag \in {"Array", "FixedArray"} THEN ElementCore(ty.elem) ELSE ty

\* The sizes of bytesN: 1, ..., 32.
ValidFixedBytesSizes == 1..32

\* The type the specification gives to `bytes` followed by the digits ds,
\* or None when the size is out of range.
BytesTypeOf(ds) ==
    IF ds = <<>> THEN Some(Bytes)
    ELSE IF ParseUsize(ds) \in ValidFixedBytesSizes THEN Some(FixedBytes(ParseUsize(ds)))
    ELSE None

\* C12: `bytes` parses to Bytes and `bytesN` to FixedBytes(N) exactly when
\* 1 <= N <= 32; an out-of-range size (bytes0, bytes33, ...) is a returned
\* deserialization error, alone and when array suffixes follow, and is never
\* accepted as the dynamic Bytes.
C12_BytesSizes ==
    call.op = "param_deserialize"
    => \A ds \in SizeStrings, ss \in SeqsUpTo(SuffixStrings, MaxSuffixes) :
          call.entry.type_ = S_bytes \o ds \o Flatten(ss)
          => IF BytesTypeOf(ds) = None THEN result.kind = "err"
             ELSE /\ result.kind = "ok"
                  /\ ElementCore(result.value.type_) = Unwrap(BytesTypeOf(ds))
                  /\ ss = <<>> => result.value.type_ = Unwrap(BytesTypeOf(ds))

\* C12 witness: `bytes33[]` was rejected with an error.
C12_Witness ==
    /\ call.op = "param_deserialize"
    /\ call.entry.type_ = S_bytes \o <<"3", "3", "[", "]">>
    /\ result.kind = "err"

\* The atoms of the model's type strings that are a type on their own.
AtomTypes ==
    {<<S_address, Address>>, <<S_bool, Bool>>, <<S_string, String>>,
     <<S_bytes, Bytes>>, <<S_bytes \o <<"3", "2">>, FixedBytes(32)>>,
     <<S_uint \o <<"8">>, Uint(8)>>, <<S_int \o <<"2", "5", "6">>, TypeInt(256)>>}

\* The optional size written in a suffix `[]` or `[n]`.
SuffixSize(sfx) ==
    IF Len(sfx) = 2 THEN None ELSE Some(ParseUsize(SubSeq(sfx, 2, Len(sfx) - 1)))

\* The type the specification gives to an atom of type ty followed by the
\* suffixes ss: the last suffix is the outermost wrapper.
RECURSIVE WrapSuffixes(_, _)
WrapSuffixes(ty, ss) ==
    IF ss = <<>> THEN ty
    ELSE LET inner == WrapSuffixes(ty, SubSeq(ss, 1, Len(ss) - 1))
             size == SuffixSize(ss[Len(ss)])
         IN  IF size = None THEN Array(inner) ELSE FixedArray(inner, Unwrap(size))

\* C13: atom[s1]...[sk], k >= 1, parses to the atom's type wrapped once per
\* suffix, s1 innermost and sk outermost; `[]` makes an Array and `[n]`
\* (n >= 0) a FixedArray of length n.
C13_ArraySuffixes ==
    call.op = "param_deserialize"
    => \A at \in AtomTypes, ss \in SeqsUpTo(SuffixStrings, MaxSuffixes) :
          (ss # <<>> /\ call.entry.type_ = at[1] \o Flatten(ss))
          => result = Ok(Param(call.entry.name, WrapSuffixes(at[2], ss),
                               call.entry.indexed))

\* C13 witness: `string[2][]` was deserialized to
\* Array(FixedArray(String, 2)).
C13_Witness ==
    /\ call.op = "param_deserialize"
    /\ call.entry.type_ = S_string \o <<"[", "2", "]", "[", "]">>
    /\ result.kind = "ok"
    /\ result.value.type_ = Array(FixedArray(String, 2))

\* The suffixes written after the first n characters of a type string.
SuffixesAfter(ts, n) ==
    CHOOSE ss \in SeqsUpTo(SuffixStrings, MaxSuffixes) : Flatten(ss) = Drop(ts, n)

\* The type the specification gives to a well-formed descriptor: a leaf is
\* its atom's type; a tuple is the Tuple of its own components' names and
\* types, in order, wrapped by the suffixes written after `tuple`.
RECURSIVE DescriptorType(_)
DescriptorType(entry) ==
    IF IsTupleString(entry.type_)
    THEN LET cs == Unwrap(entry.components)
         IN  WrapSuffixes(Tuple([i \in 1..Len(cs) |->
                                    <<cs[i].name, DescriptorType(cs[i])>>]),
                          SuffixesAfter(entry.type_, Len(S_tuple)))
    ELSE (CHOOSE at \in AtomTypes : at[1] = entry.type_)[2]

\* C14: a `tuple` type string with components parses to Tuple(fields), one
\* (name, type) per component in component order, each type parsed from the
\* component's own type string and own components; the suffixes after
\* `tuple` wrap the Tuple.
C14_TupleFields ==
    (/\ call.op = "param_deserialize"
     /\ call.entry.type_ \in TupleStrings
     /\ IsSome(call.entry.components)
     /\ ~HasBadComponent(call.entry))
    => result = Ok(Param(call.entry.name, DescriptorType(call.entry),
                         call.entry.indexed))

\* C14 witness: tuple[] with the components a: uint8 and t: tuple (itself
\* with the component b: string) was deserialized to
\* Array(Tuple(a: Uint(8), t: Tuple(b: String))).
C14_Witness ==
    /\ call.op = "param_deserialize"
    /\ call.entry.type_ = S_tuple \o <<"[", "]">>
    /\ call.entry.components =
          Some(<<ParamEntry("a", S_uint8, None, None),
                 ParamEntry("t", S_tuple, None,
                            Some(<<ParamEntry("b", S_string, None, None)>>))>>)
    /\ result.kind = "ok"
    /\ result.value.type_ =
          Array(Tuple(<<<<"a", Uint(8)>>, <<"t", Tuple(<<<<"b", String>>>>)>>>>))

(***************************************************************************)
(* Claims about the deserialization of schema documents (SpecJson).        *)
(***************************************************************************)
EntryKinds == {"constructor", "function", "event", "error", "receive", "fallback"}

\* The entry lacks a field the specification requires of its kind.
LacksRequiredField(e) ==
    \/ e.type_ = "function" /\ (e.name = None \/ e.state_mutability = None)
    \/ e.type_ = "event" /\ (e.name = None \/ e.anonymous = None)
    \/ e.type_ = "constructor" /\ e.state_mutability = None
    \/ e.type_ = "error" /\ e.name = None

IsInvalidEntry(e) == e.type_ \notin EntryKinds \/ LacksRequiredField(e)

IsFunctionEntry(e) == e.type_ = "function"
IsEventEntry(e) == e.type_ = "event"
IsErrorEntry(e) == e.type_ = "error"
IsConstructorEntry(e) == e.type_ = "constructor"

ExpectedParams(o) ==
    IF o = None THEN <<>>
    ELSE [i \in 1..Len(Unwrap(o)) |->
            Param(Unwrap(o)[i].name, DescriptorType(Unwrap(o)[i]), Unwrap(o)[i].indexed)]

ExpectedFunction(e) ==
    Function(Unwrap(e.name), ExpectedParams(e.inputs), ExpectedParams(e.outputs),
             Unwrap(e.state_mutability))

ExpectedEvent(e) == Event(Unwrap(e.name), ExpectedParams(e.inputs), Unwrap(e.anonymous))

ExpectedError(e) == Error(Unwrap(e.name), ExpectedParams(e.inputs))

\* C16: after deserializing a document of valid entries the schema is its
\* projection by kind: functions, events and errors hold the entries of
\* their kind in document order, has_receive / has_fallback tell whether a
\* receive / fallback entry occurred, and the constructor is absent when no
\* constructor entry occurred.
C16_SchemaIsProjection ==
    (/\ call.op = "deserialize"
     /\ \A i \in 1..Len(call.json) : ~IsInvalidEntry(call.json[i]))
    => LET fs == SelectSeq(call.json, IsFunctionEntry)
           es == SelectSeq(call.json, IsEventEntry)
           xs == SelectSeq(call.json, IsErrorEntry)
       IN  /\ result.kind = "ok"
           /\ result.value.functions = [k \in 1..Len(fs) |-> ExpectedFunction(fs[k])]
           /\ result.value.events = [k \in 1..Len(es) |-> ExpectedEvent(es[k])]
           /\ result.value.errors = [k \in 1..Len(xs) |-> ExpectedError(xs[k])]
           /\ result.value.has_receive
              <=> \E i \in 1..Len(call.json) : call.json[i].type_ = "receive"
           /\ result.value.has_fallback
              <=> \E i \in 1..Len(call.json) : call.json[i].type_ = "fallback"
           /\ (\A i \in 1..Len(call.json) : ~IsConstructorEntry(call.json[i]))
              => result.value.constructor = None

\* C16 witness: the document [function f, receive, function g] gave the
\* functions f, g in that order, has_receive and no fallback, constructor,
\* event or error.
C16_Witness ==
    /\ call.op = "deserialize"
    /\ Len(call.json) = 3
    /\ call.json[1].type_ = "function"
    /\ call.json[2].type_ = "receive"
    /\ call.json[3].type_ = "function"
    /\ result.kind = "ok"
    /\ Len(result.value.functions) = 2
    /\ result.value.functions[1].name = <<"f">>
    /\ result.value.functions[2].name = <<"g">>
    /\ result.value.has_receive
    /\ ~result.value.has_fallback
    /\ result.value.constructor = None
    /\ result.value.events = <<>>
    /\ result.value.errors = <<>>

====
